---- MODULE Spec2Model ----
(***************************************************************************)
(* The credit ledger and the request handlers of the image-description     *)
(* service: src/app/server.py (the authenticated entry point) and          *)
(* src/server.py (the entry point without API key).  Every request runs    *)
(* in its own thread; the only shared state is the user_credits table,     *)
(* which each database function opens, changes and commits on its own.     *)
(***************************************************************************)
EXTENDS Integers, FiniteSets, Sequences, TLC

\* ------------------------------------------------------------------ bounds
NSlots == 2
MaxRequests == 2
MaxStart == 1

\* --------------------------------------------------------------- constants
DefaultCredits == 10

Users == {"u1", "u2"}
Slots == 1..NSlots
Variants == {"app", "root"}

\* Python's None, and "header absent": the empty option.
None == {}
Some(v) == {v}
NoUser == "-"

VARIABLES
    variant,   \* which entry point the process runs
    table,     \* the rows of user_credits
    pc,        \* per request thread: where its handler stands
    req,       \* per request thread: the request it has received
    user,      \* per request thread: user_id handed to the route function
    cur,       \* per request thread: current_credits of require_credits
    gate,      \* per request thread: how require_credits ended
    calls,     \* per request thread: collaborator invocations of this request
    sent,      \* the response the last step returned, and the request it ends
    budget,    \* requests the clients may still send
    start,     \* per user: balance the gate starts from
    okCount    \* per user: require_credits calls that returned normally

vars == <<variant, table, pc, req, user, cur, gate, calls, sent, budget,
          start, okCount>>

\* ------------------------------------------------------------- the ledger
\* CREATE TABLE user_credits (id AUTOINCREMENT, user_id UNIQUE, credits DEFAULT 10).
\* No statement reads or sets the id column: a row is its user_id and credits.
Row(u, c) == [user_id |-> u, credits |-> c]

RowsOf(t, u) == {row \in t : row.user_id = u}

\* row[0] if row else None
Fetched(t, u) ==
    IF RowsOf(t, u) = {} THEN None
    ELSE LET row == CHOOSE row \in RowsOf(t, u) : TRUE IN Some(row.credits)

\* A query that also makes the row, as require_credits does before it reads.
get_user_credits_creating(t, u) ==
    LET db == IF RowsOf(t, u) = {} THEN t \cup {Row(u, DefaultCredits)} ELSE t
    IN  [db |-> db, val |-> Fetched(db, u)]

\* SELECT credits FROM user_credits WHERE user_id = ?; fetchone().
\* db: the table the transaction leaves; val: what the function returns.
get_user_credits(t, u) == [db |-> t, val |-> Fetched(t, u)]

\* An update that is not restricted to the user's row.
set_user_credits_all(t, u, amount) ==
    {Row(row.user_id, amount) : row \in t} \cup {Row(u, amount)}

\* INSERT ... ON CONFLICT(user_id) DO UPDATE SET credits=excluded.credits
set_user_credits(t, u, amount) ==
    IF RowsOf(t, u) = {}
    THEN t \cup {Row(u, amount)}
    ELSE {IF row.user_id = u THEN Row(u, amount) ELSE row : row \in t}

\* INSERT OR REPLACE: the row is made anew whether or not it was there.
InsertOrReplace(t, u) == (t \ RowsOf(t, u)) \cup {Row(u, DefaultCredits)}

\* INSERT OR IGNORE INTO user_credits (user_id) VALUES (?)
InsertOrIgnore(t, u) ==
    IF RowsOf(t, u) = {} THEN t \cup {Row(u, DefaultCredits)} ELSE t

\* Off by one, either way.
NoCreditsLeft_Below0(c) == c = None \/ \E v \in c : v < 0
NoCreditsLeft_Below2(c) == c = None \/ \E v \in c : v < 2

\* current_credits is None or current_credits < 1
NoCreditsLeft(c) == c = None \/ \E v \in c : v < 1

\* Two taken for one.
Debit_Two(c) == (CHOOSE v \in c : TRUE) - 2

\* current_credits - 1
Debit(c) == (CHOOSE v \in c : TRUE) - 1

\* "and" for "or"; the table default for the 0.
OrZero_AlwaysZero(c) == 0
OrZero_Default(c) == IF c = None \/ c = Some(0) THEN DefaultCredits ELSE CHOOSE v \in c : TRUE

\* user_credits or 0
OrZero(c) == IF c = None \/ c = Some(0) THEN 0 ELSE CHOOSE v \in c : TRUE

\* ------------------------------------------------------------ the requests
KeyKinds == {"valid", "invalid", "missing"}
BodyKinds == {"empty", "nolang", "noimage", "full"}

Requests ==
    [ep : {"analyze"}, key : KeyKinds, uid : Users \cup {NoUser}, body : BodyKinds]
    \cup [ep : {"credits"}, key : KeyKinds, uid : Users \cup {NoUser}, body : {"empty"}]

NoReq == [ep |-> "-", key |-> "missing", uid |-> NoUser, body |-> "empty"]

\* jsonify(...), status
NoResp == [status |-> 0, error |-> "", credits |-> None, keys |-> {}]
Error(status, msg) == [status |-> status, error |-> msg, credits |-> None, keys |-> {}]
Credits(n) == [status |-> 200, error |-> "", credits |-> Some(n), keys |-> {"credits"}]
Described(keys) == [status |-> 200, error |-> "", credits |-> None, keys |-> keys]

NothingSent == [slot |-> 0, at |-> "-", user |-> NoUser, gate |-> "none", calls |-> 0,
                answer |-> "-", resp |-> NoResp]

\* decorated_function: X-Api-Key, then X-User-Id
require_api_key_and_user_id(q) ==
    IF q.key # "valid" THEN Error(422, "Invalid API key")
    ELSE IF q.uid = NoUser THEN Error(422, "Missing required user ID")
    ELSE NoResp

\* The image field is not looked at.
CheckPayload_LangOnly(q) ==
    IF q.body = "empty" THEN Error(422, "No data provided")
    ELSE IF q.body = "nolang" THEN Error(422, "Missing required fields")
    ELSE NoResp

\* request.json, lang, image
CheckPayload(q) ==
    IF q.body = "empty" THEN Error(422, "No data provided")
    ELSE IF q.body \in {"nolang", "noimage"} THEN Error(422, "Missing required fields")
    ELSE NoResp

\* X-User-Id read inside the handler (src/server.py)
CheckUserId(q) ==
    IF q.uid = NoUser THEN Error(422, "Missing required user ID") ELSE NoResp

First(a, b) == IF a # NoResp THEN a ELSE b

\* What the handler answers before it touches the ledger; NoResp: it goes on.
Rejection(v, q) ==
    IF v = "app"
    THEN IF q.ep = "analyze"
         THEN First(require_api_key_and_user_id(q), CheckPayload(q))
         ELSE require_api_key_and_user_id(q)
    ELSE IF q.ep = "analyze"
         THEN First(CheckPayload(q), CheckUserId(q))
         ELSE CheckUserId(q)

\* ------------------------------------------------------- the collaborator
\* fields of PictureDescription
PictureDescription == {"name", "description", "fun_facts"}

\* what completion.choices[0].message can be, and what the call can raise
Outcomes == {"parsed", "refusal", "neither", "length", "fault"}

\* attribute read for each key of the success body
BodyFields(v) ==
    IF v = "app"
    THEN [name |-> "name", description |-> "description", synonyms |-> "synonyms"]
    ELSE [name |-> "name", description |-> "description", funFacts |-> "fun_facts"]

\* the try/except around the collaborator call
Translate(v, o) ==
    CASE o = "parsed" ->
           IF \A k \in DOMAIN BodyFields(v) : BodyFields(v)[k] \in PictureDescription
           THEN Described(DOMAIN BodyFields(v))
           ELSE Error(500, "str(e)")
      [] o = "refusal" -> Error(422, "Image is not processable")
      [] o = "neither" -> Error(422, "Image cannot be identified")
      [] o = "length"  -> Error(422, "Image too big")
      [] OTHER         -> Error(500, "str(e)")

\* ------------------------------------------------------------------- Init
\* init_db creates the table only if the file does not hold it already: the
\* process starts on whatever ledger earlier runs left.
Ledgers ==
    { t \in SUBSET [user_id : Users, credits : 0..MaxStart] :
        \A a, b \in t : a.user_id = b.user_id => a = b }

Init ==
    /\ variant \in Variants
    /\ table \in Ledgers
    /\ pc = [r \in Slots |-> "idle"]
    /\ req = [r \in Slots |-> NoReq]
    /\ user = [r \in Slots |-> NoUser]
    /\ cur = [r \in Slots |-> None]
    /\ gate = [r \in Slots |-> "none"]
    /\ calls = [r \in Slots |-> 0]
    /\ sent = NothingSent
    /\ budget = MaxRequests
    /\ start = [u \in Users |->
                  IF RowsOf(table, u) = {} THEN DefaultCredits
                  ELSE (CHOOSE row \in RowsOf(table, u) : TRUE).credits]
    /\ okCount = [u \in Users |-> 0]

\* ---------------------------------------------------------------- actions
\* The handler returns response a: the client has it, the thread's locals are
\* gone and the thread is free again.
Return(r, g, a, o) ==
    /\ sent' = [slot |-> r, at |-> pc[r], user |-> user[r], gate |-> g, calls |-> calls[r],
                answer |-> o, resp |-> a]
    /\ pc' = [pc EXCEPT ![r] = "idle"]
    /\ req' = [req EXCEPT ![r] = NoReq]
    /\ user' = [user EXCEPT ![r] = NoUser]
    /\ cur' = [cur EXCEPT ![r] = None]
    /\ gate' = [gate EXCEPT ![r] = "none"]
    /\ calls' = [calls EXCEPT ![r] = 0]

\* A client sends a request and a thread picks it up.  Worker threads are
\* interchangeable (the lowest free one takes it); the accept loop hands over
\* one request at a time, and a thread's first act is to run its checks.
Receive(r) ==
    /\ pc[r] = "idle"
    /\ \A other \in Slots : pc[other] = "idle" => r <= other
    /\ \A other \in Slots : pc[other] # "validate"
    /\ budget > 0
    /\ \E q \in Requests : req' = [req EXCEPT ![r] = q]
    /\ pc' = [pc EXCEPT ![r] = "validate"]
    /\ budget' = budget - 1
    /\ sent' = NothingSent
    /\ UNCHANGED <<variant, table, user, cur, gate, calls, start, okCount>>

\* The decorator and the handler's own checks, up to the first ledger access.
Validate(r) ==
    /\ pc[r] = "validate"
    /\ LET rej == Rejection(variant, req[r]) IN
         IF rej # NoResp
         THEN Return(r, gate[r], rej, "-")
         ELSE /\ user' = [user EXCEPT ![r] = req[r].uid]
              /\ pc' = [pc EXCEPT ![r] = IF req[r].ep = "analyze" THEN "ensure" ELSE "query"]
              /\ req' = [req EXCEPT ![r] = NoReq]
              /\ sent' = NothingSent
              /\ UNCHANGED <<cur, gate, calls>>
    /\ UNCHANGED <<variant, table, budget, start, okCount>>

\* credits_left: get_user_credits(user_id), jsonify
CreditsLeft(r) ==
    /\ pc[r] = "query"
    /\ LET got == get_user_credits(table, user[r]) IN
         /\ table' = got.db
         /\ Return(r, gate[r], Credits(OrZero(got.val)), "-")
    /\ UNCHANGED <<variant, budget, start, okCount>>

\* sqlite3 raises in credits_left: nothing catches it, errorhandler(500) answers.
QueryFault(r) ==
    /\ pc[r] = "query"
    /\ Return(r, gate[r], Error(500, "Internal server error"), "-")
    /\ UNCHANGED <<variant, table, budget, start, okCount>>

\* The first transaction waits for a lock held across collaborator calls.
EnsureRow_Locked(r) ==
    /\ pc[r] = "ensure"
    /\ \A other \in Slots : pc[other] # "collab"
    /\ table' = InsertOrIgnore(table, user[r])
    /\ pc' = [pc EXCEPT ![r] = "read"]
    /\ sent' = NothingSent
    /\ UNCHANGED <<variant, req, user, cur, gate, calls, budget, start, okCount>>

\* require_credits, first transaction: make sure the row exists.
EnsureRow(r) ==
    /\ pc[r] = "ensure"
    /\ table' = InsertOrIgnore(table, user[r])
    /\ pc' = [pc EXCEPT ![r] = "read"]
    /\ sent' = NothingSent
    /\ UNCHANGED <<variant, req, user, cur, gate, calls, budget, start, okCount>>

\* require_credits, second transaction: read the balance and decide;
\* ValueError -> 402.
ReadCredits(r) ==
    /\ pc[r] = "read"
    /\ LET got == get_user_credits(table, user[r]) IN
         /\ table' = got.db
         /\ IF NoCreditsLeft(got.val)
            THEN Return(r, "Denied", Error(402, "No more credits left"), "-")
            ELSE /\ cur' = [cur EXCEPT ![r] = got.val]
                 /\ pc' = [pc EXCEPT ![r] = "write"]
                 /\ sent' = NothingSent
                 /\ UNCHANGED <<req, user, gate, calls>>
    /\ UNCHANGED <<variant, budget, start, okCount>>

\* require_credits, third transaction: write the balance less one and return.
WriteCredits(r) ==
    /\ pc[r] = "write"
    /\ table' = set_user_credits(table, user[r], Debit(cur[r]))
    /\ gate' = [gate EXCEPT ![r] = "Ok"]
    /\ okCount' = [okCount EXCEPT ![user[r]] = @ + 1]
    /\ pc' = [pc EXCEPT ![r] = "call"]
    /\ sent' = NothingSent
    /\ UNCHANGED <<variant, req, user, cur, calls, budget, start>>

\* The failing write has taken the credit all the same.
StoreFault_Charged(r) ==
    /\ pc[r] \in {"ensure", "read", "write"}
    /\ Return(r, "StoreError", Error(500, "str(e)"), "-")
    /\ table' = IF pc[r] = "write"
                THEN set_user_credits(table, user[r], Debit(cur[r]))
                ELSE table
    /\ UNCHANGED <<variant, budget, start, okCount>>

\* sqlite3 raises in one of the gate's transactions: except Exception -> 500.
StoreFault(r) ==
    /\ pc[r] \in {"ensure", "read", "write"}
    /\ Return(r, "StoreError", Error(500, "str(e)"), "-")
    /\ UNCHANGED <<variant, table, budget, start, okCount>>

\* The collaborator is called twice for one request.
Invoke_Retry(r) ==
    /\ pc[r] = "call"
    /\ calls' = [calls EXCEPT ![r] = @ + 2]
    /\ pc' = [pc EXCEPT ![r] = "collab"]
    /\ sent' = NothingSent
    /\ UNCHANGED <<variant, table, req, user, cur, gate, budget, start, okCount>>

\* The handler calls the collaborator.
Invoke(r) ==
    /\ pc[r] = "call"
    /\ calls' = [calls EXCEPT ![r] = @ + 1]
    /\ pc' = [pc EXCEPT ![r] = "collab"]
    /\ sent' = NothingSent
    /\ UNCHANGED <<variant, table, req, user, cur, gate, budget, start, okCount>>

\* The credit is written back when the collaborator gives no structured result.
CollabReturn_Refund(r) ==
    /\ pc[r] = "collab"
    /\ \E o \in Outcomes :
         /\ Return(r, gate[r], Translate(variant, o), o)
         /\ table' = IF o = "parsed" THEN table
                     ELSE set_user_credits(table, user[r], CHOOSE v \in cur[r] : TRUE)
    /\ UNCHANGED <<variant, budget, start, okCount>>

\* The collaborator answers or raises; the handler translates.
CollabReturn(r) ==
    /\ pc[r] = "collab"
    /\ \E o \in Outcomes : Return(r, gate[r], Translate(variant, o), o)
    /\ UNCHANGED <<variant, table, budget, start, okCount>>

Next ==
    \E r \in Slots :
        \/ Receive(r)
        \/ Validate(r)
        \/ CreditsLeft(r)
        \/ QueryFault(r)
        \/ EnsureRow(r)
        \/ ReadCredits(r)
        \/ WriteCredits(r)
        \/ StoreFault(r)
        \/ Invoke(r)
        \/ CollabReturn(r)

Spec == Init /\ [][Next]_vars

\* The next transaction of a thread that is inside require_credits.
GateStep(r) == EnsureRow(r) \/ ReadCredits(r) \/ WriteCredits(r)

\* The process starts on a ledger whose users have used up their allowance;
\* every other user is new.  The gate turns the former away and lets the
\* latter through.
InitFair == Init /\ \A row \in table : row.credits = 0

\* Threads are scheduled fairly: a thread inside require_credits gets to run
\* its next transaction.  Nothing is assumed of the collaborator, which may
\* take arbitrarily long to answer.
SpecFair == InitFair /\ [][Next]_vars /\ \A r \in Slots : WF_vars(GateStep(r))

\* A new database and one request more than there are in Spec: enough for a
\* request to be overtaken by two others of the same user.
InitFresh ==
    /\ variant \in Variants
    /\ table = {}
    /\ pc = [r \in Slots |-> "idle"]
    /\ req = [r \in Slots |-> NoReq]
    /\ user = [r \in Slots |-> NoUser]
    /\ cur = [r \in Slots |-> None]
    /\ gate = [r \in Slots |-> "none"]
    /\ calls = [r \in Slots |-> 0]
    /\ sent = NothingSent
    /\ budget = MaxRequests + 1
    /\ start = [u \in Users |-> DefaultCredits]
    /\ okCount = [u \in Users |-> 0]

SpecRace == InitFresh /\ [][Next]_vars

\* One client, a new database: each request is answered before the next is
\* sent, and there are enough of them to use up the allowance and ask again.
SeqRequests == DefaultCredits + 2

InitSeq ==
    /\ variant \in Variants
    /\ table = {}
    /\ pc = [r \in Slots |-> "idle"]
    /\ req = [r \in Slots |-> NoReq]
    /\ user = [r \in Slots |-> NoUser]
    /\ cur = [r \in Slots |-> None]
    /\ gate = [r \in Slots |-> "none"]
    /\ calls = [r \in Slots |-> 0]
    /\ sent = NothingSent
    /\ budget = SeqRequests
    /\ start = [u \in Users |-> DefaultCredits]
    /\ okCount = [u \in Users |-> 0]

NextSeq ==
    \E r \in {1} :
        \/ Receive(r)
        \/ Validate(r)
        \/ CreditsLeft(r)
        \/ QueryFault(r)
        \/ EnsureRow(r)
        \/ ReadCredits(r)
        \/ WriteCredits(r)
        \/ StoreFault(r)
        \/ Invoke(r)
        \/ CollabReturn(r)

SpecSeq == InitSeq /\ [][NextSeq]_vars

\* ================================================================ claims
\* Threads of user u inside require_credits.
InGate(u) == {r \in Slots : user[r] = u /\ pc[r] \in {"ensure", "read", "write"}}

\* C1: with no top-up, the require_credits calls for a user that return
\* normally (Ok) are never more than the balance the user started from (10
\* for a user without a row).
C1_NoDoubleSpend == \A u \in Users : okCount[u] <= start[u]

\* C2: once every require_credits call for a user has returned, the stored
\* balance of that user is the starting balance less the number of calls that
\* returned Ok.
C2_EachOkCostsOne ==
    \A u \in Users :
        (InGate(u) = {} /\ RowsOf(table, u) # {}) =>
            \A row \in RowsOf(table, u) : row.credits = start[u] - okCount[u]

\* C3: no two require_credits calls for the same user_id are at the same time
\* between their balance read and their balance write.
C3_SerializedPerUser ==
    \A r1, r2 \in Slots :
        (r1 # r2 /\ pc[r1] = "write" /\ pc[r2] = "write") => user[r1] # user[r2]

\* C4: every stored credits value is an integer >= 0, in every reachable state.
C4_Floor == \A row \in table : row.credits \in Nat

\* C4 witness: two calls were let through on a starting balance of 1 (the race),
\* and the stored balance is 0.
C4_Witness ==
    \E u \in Users :
        /\ start[u] = 1
        /\ okCount[u] = 2
        /\ \E row \in RowsOf(table, u) : row.credits = 0

\* C5: a require_credits call that has read the balance ends Denied exactly
\* when the balance it read is absent or < 1; a step that ends a call Denied is
\* its read step, writes nothing to the table and ends the request with 402.
C5_DeniedNeverMutates ==
    [][ /\ \A r \in Slots :
             (pc[r] = "read" /\ pc'[r] # "read" /\ sent'.gate # "StoreError") =>
                 ( (sent'.gate = "Denied" /\ sent'.slot = r)
                   <=> ( \/ RowsOf(table, user[r]) = {}
                         \/ \E row \in RowsOf(table, user[r]) : row.credits < 1 ) )
        /\ sent'.gate = "Denied" =>
             /\ table' = table
             /\ pc[sent'.slot] = "read"
             /\ pc'[sent'.slot] = "idle"
             /\ sent'.resp.status = 402
      ]_vars

\* C5 witness: a call for a user at balance 0 has just ended Denied and the
\* balance is 0.
C5_Witness ==
    /\ sent.gate = "Denied"
    /\ \E row \in RowsOf(table, sent.user) : row.credits = 0

\* C6: the table never holds two rows for one user_id, holds one for every user
\* whose require_credits call got past its ensure-row step, and never loses a
\* row; the ensure-row step adds the row with 10 credits when there is none
\* and leaves the table as it is when there is one.
C6_InsertIfAbsent ==
    /\ [](\A u \in Users :
            /\ Cardinality(RowsOf(table, u)) <= 1
            /\ (\E r \in Slots : user[r] = u /\ pc[r] \in {"read", "write", "call", "collab"})
                 => Cardinality(RowsOf(table, u)) = 1
            /\ (sent.user = u /\ sent.gate \in {"Ok", "Denied"})
                 => Cardinality(RowsOf(table, u)) = 1)
    /\ [][ /\ \A u \in Users : RowsOf(table, u) # {} => RowsOf(table', u) # {}
           /\ \A r \in Slots :
                (pc[r] = "ensure" /\ pc'[r] = "read") =>
                    IF RowsOf(table, user[r]) = {}
                    THEN table' = table \cup {[user_id |-> user[r], credits |-> DefaultCredits]}
                    ELSE table' = table
         ]_vars

\* C6 witness: a call for a user stored at balance 0 is past its ensure-row
\* step and the balance is still 0.
C6_Witness ==
    \E r \in Slots :
        /\ pc[r] = "read"
        /\ start[user[r]] = 0
        /\ okCount[user[r]] = 0
        /\ \E row \in RowsOf(table, user[r]) : row.credits = 0

\* C7: no step of the GET /credits handler changes the table (no row made, no
\* balance changed), and the balance it reports is the one a query of the
\* table it leaves reports again.
C7_QueryReadOnly ==
    [][ \A r \in Slots :
          /\ (pc[r] = "validate" /\ req[r].ep = "credits" /\ pc'[r] # "validate")
               => table' = table
          /\ (pc[r] = "query" /\ pc'[r] # "query") =>
               /\ table' = table
               /\ sent'.resp.status = 200 =>
                    sent'.resp.credits =
                        IF RowsOf(table', user[r]) = {} THEN {0}
                        ELSE {row.credits : row \in RowsOf(table', user[r])}
      ]_vars

\* C7 witness: a query for a user without a row has just been answered and the
\* user still has no row.
C7_Witness ==
    /\ sent.at = "query"
    /\ sent.resp.status = 200
    /\ sent.user \in Users
    /\ RowsOf(table, sent.user) = {}

\* C8: a GET /credits request with a valid identity that meets no store fault
\* is answered 200 with credits = 0 when the user has no row, and with the
\* stored balance when the user has one.
C8_QueryReportsBalance ==
    (sent.at = "query" /\ sent.resp.error # "Internal server error") =>
        /\ sent.resp.status = 200
        /\ sent.resp.keys = {"credits"}
        /\ sent.resp.credits =
               IF RowsOf(table, sent.user) = {} THEN {0}
               ELSE {row.credits : row \in RowsOf(table, sent.user)}

\* C8 witness: a query for a user with a positive stored balance has just been
\* answered with that balance.
C8_Witness ==
    /\ sent.at = "query"
    /\ \E row \in RowsOf(table, sent.user) :
           row.credits > 0 /\ sent.resp.credits = {row.credits}

\* C9 as stated: a balance query for user "u1", who has no row (never seen by
\* the gate), reports credits = 10.
C9_FreshQueryReportsDefault ==
    (sent.at = "query" /\ sent.resp.status = 200 /\ sent.user = "u1"
       /\ RowsOf(table, "u1") = {})
        => sent.resp.credits = {DefaultCredits}

\* C9 amended: a balance query for user "u1", who has no row (never seen by
\* the gate), reports credits = 0.
C9_FreshQueryReportsZero ==
    (sent.at = "query" /\ sent.resp.status = 200 /\ sent.user = "u1"
       /\ RowsOf(table, "u1") = {})
        => sent.resp.credits = {0}

\* C9 witness: such a query has just been answered.
C9_Witness ==
    /\ sent.at = "query"
    /\ sent.resp.status = 200
    /\ sent.user = "u1"
    /\ RowsOf(table, "u1") = {}
    /\ okCount["u1"] = 0

\* C10: a POST /analyze/image request with a bad or missing API key (where the
\* entry point asks for one), no user identifier, an empty body, no language
\* tag or no image is answered 422 by the step that checks it: require_credits
\* is not entered, the table is unchanged and the collaborator is not invoked.
C10_ValidationPrecedesCost ==
    [][ \A r \in Slots :
          ( /\ pc[r] = "validate"
            /\ pc'[r] # "validate"
            /\ req[r].ep = "analyze"
            /\ \/ (variant = "app" /\ req[r].key # "valid")
               \/ req[r].uid = NoUser
               \/ req[r].body # "full" ) =>
              /\ pc'[r] = "idle"
              /\ table' = table
              /\ okCount' = okCount
              /\ sent'.slot = r
              /\ sent'.resp.status = 422
              /\ sent'.gate = "none"
              /\ sent'.calls = 0
      ]_vars

\* C10 witness: a request without its image has just been rejected while a
\* user's stored balance is positive.
C10_Witness ==
    /\ sent.at = "validate"
    /\ sent.resp.error = "Missing required fields"
    /\ \E row \in table : row.credits > 0

\* C11: for a user new to the database whose require_credits calls run one
\* after another, each write leaves the balance at 10 less the number of calls
\* let through so far (9, 8, ..., 0); a call that has read the balance is let
\* through while fewer than 10 were, and is Denied, the balance staying 0, once
\* 10 were.  (A call ended by a store fault is neither.)
C11_SequentialExhaustion ==
    [][ \A r \in Slots :
          /\ (pc[r] = "write" /\ pc'[r] = "call") =>
               /\ okCount'[user[r]] \in 1..DefaultCredits
               /\ \A row \in RowsOf(table', user[r]) :
                      row.credits = DefaultCredits - okCount'[user[r]]
               /\ RowsOf(table', user[r]) # {}
          /\ (pc[r] = "read" /\ pc'[r] # "read" /\ sent'.gate # "StoreError") =>
               IF okCount[user[r]] < DefaultCredits
               THEN pc'[r] = "write"
               ELSE /\ sent'.gate = "Denied"
                    /\ sent'.resp.status = 402
                    /\ table' = table
                    /\ \A row \in RowsOf(table', user[r]) : row.credits = 0
      ]_vars

\* C11 witness: the 11th call for a user has just been Denied after 10 were
\* let through, and the balance is 0.
C11_Witness ==
    /\ sent.gate = "Denied"
    /\ sent.user \in Users
    /\ okCount[sent.user] = DefaultCredits
    /\ \E row \in RowsOf(table, sent.user) : row.credits = 0

\* C12: the collaborator is invoked exactly once for a request whose gate
\* returned Ok, and only after the gate's write (no invocation while the request
\* is still in one of the gate's transactions); a request whose gate returned
\* Denied is answered 402 and one whose gate returned StoreError is answered
\* 500, both without any invocation.
C12_GateDecides ==
    /\ \A r \in Slots :
         /\ calls[r] <= 1
         /\ pc[r] \in {"idle", "validate", "query", "ensure", "read", "write"} =>
                calls[r] = 0 /\ gate[r] = "none"
         /\ pc[r] = "call" => calls[r] = 0 /\ gate[r] = "Ok"
         /\ pc[r] = "collab" => calls[r] = 1 /\ gate[r] = "Ok"
    /\ sent.gate = "Ok" => sent.calls = 1 /\ sent.at = "collab"
    /\ sent.gate = "Denied" => sent.calls = 0 /\ sent.resp.status = 402
    /\ sent.gate = "StoreError" => sent.calls = 0 /\ sent.resp.status = 500
    /\ sent.calls > 0 => sent.gate = "Ok"

\* C12 witness: a request let through by the gate has been answered after
\* exactly one invocation of the collaborator.
C12_Witness ==
    /\ sent.gate = "Ok"
    /\ sent.calls = 1
    /\ okCount[sent.user] >= 1

\* C13: the gate's write stores one less than the value the request read, and
\* no later step of that request (the collaborator call, its return with any
\* of the five outcomes) writes the ledger.
C13_NoRefund ==
    [][ \A r \in Slots :
          /\ (pc[r] = "write" /\ pc'[r] = "call") =>
                 RowsOf(table', user[r]) = {Row(user[r], (CHOOSE v \in cur[r] : TRUE) - 1)}
          /\ (pc[r] \in {"call", "collab"} /\ pc'[r] # pc[r]) => table' = table
          /\ (pc[r] = "collab" /\ pc'[r] = "idle") =>
                 sent'.gate = "Ok" /\ sent'.answer \in Outcomes
      ]_vars

\* C13 witness: the collaborator refused, the request was answered 422, and
\* the user's balance is one less than before the request.
C13_Witness ==
    /\ sent.answer = "refusal"
    /\ sent.resp = Error(422, "Image is not processable")
    /\ okCount[sent.user] = 1
    /\ RowsOf(table, sent.user) = {Row(sent.user, start[sent.user] - 1)}

\* The balance the gate works on: the stored credits, or the default allowance
\* the first transaction grants a user who has no row yet.
GateBalance(t, u) ==
    IF RowsOf(t, u) = {} THEN DefaultCredits
    ELSE (CHOOSE row \in RowsOf(t, u) : TRUE).credits

\* C14: a request whose gate call hits a storage fault (in the ensure-row, the
\* read or the write transaction) is answered 500, it is neither let through
\* nor Denied, the collaborator has not been invoked for it, the fault itself
\* leaves the table as it was, and the steps the request took before its write
\* left every user's balance as it was.
C14_StoreFaultsCostNothing ==
    [][ /\ \A r \in Slots :
             (pc[r] \in {"validate", "ensure", "read"} /\ pc'[r] # pc[r]) =>
                 \A u \in Users : GateBalance(table', u) = GateBalance(table, u)
        /\ sent'.gate = "StoreError" =>
             /\ sent'.at \in {"ensure", "read", "write"}
             /\ pc[sent'.slot] = sent'.at
             /\ gate[sent'.slot] = "none"
             /\ sent'.resp.status = 500
             /\ sent'.calls = 0
             /\ table' = table
             /\ okCount' = okCount
      ]_vars

\* C14 witness: the write transaction of a request failed; the request was
\* answered 500 and the user's balance is what it was.
C14_Witness ==
    /\ sent.gate = "StoreError"
    /\ sent.at = "write"
    /\ sent.resp.status = 500
    /\ okCount[sent.user] = 0
    /\ GateBalance(table, sent.user) = start[sent.user]

\* C15: once the gate has let a request through, a structured result is
\* answered 200 with name, description and funFacts, a refusal 422 'Image is
\* not processable', an answer that is neither 422 'Image cannot be
\* identified', an oversized input 422 'Image too big' and any other fault 500;
\* a structured result never ends in an error response.
C15_OutcomesMapped ==
    sent.answer \in Outcomes =>
        /\ sent.gate = "Ok"
        /\ sent.answer = "parsed" =>
               sent.resp = Described({"name", "description", "funFacts"})
        /\ sent.answer = "refusal" => sent.resp = Error(422, "Image is not processable")
        /\ sent.answer = "neither" => sent.resp = Error(422, "Image cannot be identified")
        /\ sent.answer = "length" => sent.resp = Error(422, "Image too big")
        /\ sent.answer = "fault" => sent.resp.status = 500

\* C16: while a request is inside its collaborator call, the next transaction
\* of every request that is inside the gate can run (nothing is held that
\* makes it wait), and under fair scheduling every gate call that has started
\* leaves the gate: it is let through, Denied, or ended by a store fault.
C16_SlowCollaboratorNeverBlocks ==
    /\ [](\A r \in Slots : \A s \in Slots :
            (pc[r] = "collab" /\ pc[s] \in {"ensure", "read", "write"}) =>
                ENABLED GateStep(s))
    /\ \A s \in Slots :
          (pc[s] \in {"ensure", "read", "write"}) ~>
              \/ gate[s] = "Ok"
              \/ sent.slot = s /\ sent.gate \in {"Denied", "StoreError"}

\* C16 witness: one request is inside its collaborator call and another
\* request of the same user, started meanwhile, has gone through the gate.
C16_Witness ==
    \E r \in Slots : \E s \in Slots :
        /\ r # s
        /\ pc[r] = "collab"
        /\ pc[s] = "call"
        /\ user[r] = user[s]

\* C17: on POST /analyze/image the checks are applied in the order
\* credentials (where the entry point has them), user identifier, payload
\* fields, credit gate, and the request is answered by the first check that
\* fails: a request without X-User-Id and without image is answered 'Missing
\* required user ID'.  This holds for both entry points.
C17_ValidationOrder ==
    [][ \A r \in Slots :
          (pc[r] = "validate" /\ req[r].ep = "analyze" /\ pc'[r] # "validate") =>
              LET q == req[r] IN
                IF variant = "app" /\ q.key # "valid"
                THEN sent'.resp = Error(422, "Invalid API key")
                ELSE IF q.uid = NoUser
                THEN sent'.resp = Error(422, "Missing required user ID")
                ELSE IF q.body # "full"
                THEN sent'.resp = CheckPayload(q)
                ELSE pc'[r] = "ensure" /\ sent' = NothingSent
      ]_vars

\* C18: with gate calls and balance queries only, no step raises the stored
\* balance of a user.
C18_BalanceNeverIncreases ==
    [][ \A u \in Users :
          \A old \in RowsOf(table, u) : \A new \in RowsOf(table', u) :
              new.credits <= old.credits
      ]_vars

\* C19: a step of a request of user u (a gate transaction, a balance query,
\* the collaborator call or the answer) leaves the row of every other user as
\* it was: present or absent, and with the same credits.
C19_PerUserIsolation ==
    [][ \A r \in Slots :
          (user[r] # NoUser /\ pc'[r] # pc[r]) =>
              \A v \in Users \ {user[r]} : RowsOf(table', v) = RowsOf(table, v)
      ]_vars

\* C19 witness: a request of one user has written its debit while a request
\* of another user is inside the gate, and that user's row holds what it held
\* at the start.
C19_Witness ==
    \E r \in Slots : \E s \in Slots :
        /\ pc[r] = "call"
        /\ pc[s] \in {"read", "write"}
        /\ user[r] # user[s]
        /\ okCount[user[s]] = 0
        /\ RowsOf(table, user[s]) = {Row(user[s], start[user[s]])}
        /\ RowsOf(table, user[r]) # {Row(user[r], start[user[r]])}

====
